---- MODULE Spec2Model ----
(***************************************************************************)
(* State-machine model of the privileged (moderator) namespace:            *)
(*   - LoginMiddleware.middlewareFunction, the connection gate;            *)
(*   - PrivilegedNamespace: the users map (session registry), the          *)
(*     activeDebates map (debate registry) and the socket event handlers.  *)
(* JavaScript runs the handlers on one thread: a handler runs atomically   *)
(* up to its next await, so every action below is one such segment.        *)
(***************************************************************************)
EXTENDS Integers, Sequences, FiniteSets, Bags, TLC

\* ------------------------------------------------------------------ bounds
\* Debate objects ever constructed.
MaxDebates == 1
\* Handlers suspended in an await at the same time.
MaxPending == 2
\* Connection attempts ever made.
MaxSockets == 2
\* Questions per debate.
MaxQuestions == 1
\* Audience suggestions per debate.
MaxSuggestions == 1
\* Debate objects ever constructed where only the registries and the listing
\* are followed.
MaxListed == 2

\* ------------------------------------------------------- JavaScript values
Undefined == [t |-> "undefined"]
Null == [t |-> "null"]
NumV(n) == [t |-> "number", n |-> n]
StrV(s) == [t |-> "string", s |-> s]
BoolV(b) == [t |-> "boolean", b |-> b]
ArrV(a) == [t |-> "array", a |-> a]
FuncV == [t |-> "function"]

\* obj.name : undefined on a primitive or when the property is missing.
\* (On null or undefined the access throws; the handlers test IsNullish first.)
Prop(obj, name) ==
    IF obj.t = "object" /\ name \in DOMAIN obj THEN obj[name] ELSE Undefined

IsNullish(v) == v.t \in {"null", "undefined"}

\* ../utils/typecheck.js
isFunction(v) == v.t = "function"
isInteger(v) == v.t = "number"
isBoolean(v) == v.t = "boolean"
isStringUnbounded(v) == v.t = "string"
isString(v, maxLength) == v.t = "string" /\ Len(v.s) <= maxLength
\* isArrayOf(value, TypeCheck.isString, maxLength): the element check is given
\* as the type it accepts
isArrayOf(v, elemType, maxLength) ==
    /\ v.t = "array"
    /\ Len(v.a) <= maxLength
    /\ \A i \in 1..Len(v.a) : v.a[i].t = elemType

\* ../conf/config.js (values scaled down; only the comparisons matter)
MAX_TITLE_LENGTH == 2
MAX_DESCRIPTION_LENGTH == 2
MAX_CLOSED_ANSWERS == 2
LOGIN_PASSWORD_INVALID == "Invalid password"

\* ------------------------------------------------------ credential storage
Admins == {"alice", "bob"}
PasswordOf(u) == IF u = "alice" THEN "pwA" ELSE "pwB"

\* a bcrypt hash, kept distinct from the clear text it was made from
Hash(pw) == [t |-> "hash", of |-> pw]

\* dbManager.getAdminPassword(username): the stored hash, or null
getAdminPassword(u) == IF u \in Admins THEN Hash(PasswordOf(u)) ELSE Null

\* bcrypt.compare(password, adminHash, cb): cb(err, res)
bcryptCompare(password, adminHash) == adminHash = Hash(password)

VARIABLES
    users,          \* this.users : username -> [socket, activeDebates]
    activeDebates,  \* this.activeDebates : the keys of the map (debateID -> Debate)
    debates,        \* every Debate object constructed so far, by debateID
    sockets,        \* socket id -> the connection's state
    socketCount,    \* socket ids handed out
    discussions,    \* the persistent store: debateID -> [finishTime]
    closeMarkers,   \* the ids dbManager.saveEndDiscussion was called with (a bag)
    tasks,          \* handlers suspended in an await (a bag)
    last            \* the step just taken and what the client saw of it

vars ==
    <<users, activeDebates, debates, sockets, socketCount, discussions, closeMarkers,
      tasks, last>>

\* ------------------------------------------------------------------ helpers
EmptyMap == [x \in {} |-> x]
MapSet(m, k, v) == [x \in DOMAIN m \cup {k} |-> IF x = k THEN v ELSE m[x]]
MapRemove(m, k) == [x \in DOMAIN m \ {k} |-> m[x]]

\* the elements of a set of numbers in ascending order (a JavaScript Set keeps
\* insertion order, and debate ids are inserted in ascending order)
RECURSIVE Ascending(_)
Ascending(S) ==
    IF S = {} THEN <<>>
    ELSE LET m == CHOOSE x \in S : \A y \in S : x <= y
         IN <<m>> \o Ascending(S \ {m})

\* what a step did, as the client and the logs see it
Log(cmd, phase, req, outcome, replies) ==
    last' = [cmd |-> cmd, phase |-> phase, req |-> req, outcome |-> outcome,
             replies |-> replies]

\* the request a handler received: the socket.username it acts for ("" when the
\* handler only logs it), was the callback callable, is the payload of the shape
\* and within the bounds the handler checks, the debate id it names
Req(username, callback, wellFormed, id) ==
    [user |-> username, cb |-> isFunction(callback), wellFormed |-> wellFormed, id |-> id]

\* asynchronous functions suspended in an await: handlers and handshakes
Pending ==
    BagCardinality(tasks) + Cardinality({s \in DOMAIN sockets : sockets[s].pc # "connected"})
Suspend(task) == tasks' = tasks (+) SetToBag({task})
Resume(task) == tasks' = tasks (-) SetToBag({task})
Task(cmd, user, req, debate, question, list) ==
    [cmd |-> cmd, user |-> user, req |-> req, debate |-> debate,
     question |-> question, list |-> list]

\* sockets the 'connection' listener has run for
Attached == {s \in DOMAIN sockets : sockets[s].pc = "connected"}

\* ------------------------------------------------------------ Debate entity
\* ../debate/debate.js: new Debate(title, description, socket, io, nsp)
Debate(id, title, description, owner) ==
    [debateID |-> id, title |-> title, description |-> description,
     admin |-> owner, questions |-> <<>>, suggestions |-> <<>>, started |-> FALSE]

\* new debate.Question(title, answers, isOpenQuestion)
Question(id, title, answers, isOpenQuestion) ==
    [id |-> id, title |-> title, answers |-> answers, isOpenQuestion |-> isOpenQuestion]

\* question.format()
format(q) == [id |-> q.id, title |-> q.title, answers |-> q.answers]

\* debate.questionSuggestion.getApprovedSuggestions()
getApprovedSuggestions(d) ==
    SelectSeq([i \in 1..Len(d.suggestions) |-> [id |-> i, state |-> d.suggestions[i]]],
              LAMBDA x : x.state = "approved")

\* debate.questionSuggestion.approveSuggestion(id) / rejectSuggestion(id):
\* false unless the suggestion exists and is still pending
canDecide(d, suggestionId) ==
    /\ suggestionId \in 1..Len(d.suggestions)
    /\ d.suggestions[suggestionId] = "pending"

\* this.getActiveDebate(id): the debateID of the Debate found, 0 for undefined
getActiveDebate(id) ==
    IF id.t = "number" /\ id.n \in activeDebates THEN id.n ELSE 0

\* ------------------------------------------------------ what clients send
\* connection attempts: both administrators with their passwords, a wrong
\* password, an unknown username, no password
Handshakes ==
    {<<"alice", "pwA">>, <<"bob", "pwB">>, <<"alice", "pwB">>, <<"eve", "pwA">>,
     <<"alice", "">>}

\* debate ids: every id a debate can get, and a string that is no integer
IdValues == {NumV(i) : i \in 1..MaxDebates} \cup {StrV("1")}

\* (debateId, callback) requests: every id with a callable callback, and one
\* request whose callback is not callable
IdRequests == {<<id, FuncV>> : id \in IdValues} \cup {<<NumV(1), Undefined>>}

GoodDebate == [t |-> "object", title |-> StrV("T"), description |-> StrV("D")]

\* newDebate requests: a good payload, null, a primitive, a title that is too
\* long, a missing title, a description that is too long
NewDebateRequests ==
    {<<obj, FuncV>> : obj \in
        {GoodDebate, Null, NumV(5),
         [GoodDebate EXCEPT !.title = StrV("TTT")],
         [GoodDebate EXCEPT !.title = Undefined],
         [GoodDebate EXCEPT !.description = StrV("DDD")]}}
    \cup {<<GoodDebate, Undefined>>}

GoodQuestion(id) ==
    [t |-> "object", debateId |-> id, title |-> StrV("Q"),
     answers |-> ArrV(<<StrV("a"), StrV("b")>>), isOpenQuestion |-> Undefined]

TooManyAnswers == ArrV(<<StrV("a"), StrV("b"), StrV("c")>>)

\* newQuestion requests: closed and open questions on every id, and payloads
\* with one bad field
NewQuestionRequests ==
    {<<obj, FuncV>> : obj \in
        {GoodQuestion(id) : id \in IdValues}
        \cup {[GoodQuestion(id) EXCEPT !.isOpenQuestion = BoolV(TRUE),
                                       !.answers = TooManyAnswers] : id \in IdValues}
        \cup {Null,
              [GoodQuestion(NumV(1)) EXCEPT !.isOpenQuestion = BoolV(FALSE)],
              [GoodQuestion(NumV(1)) EXCEPT !.title = Undefined],
              [GoodQuestion(NumV(1)) EXCEPT !.answers = TooManyAnswers],
              [GoodQuestion(NumV(1)) EXCEPT !.answers = Undefined]}}
    \cup {<<GoodQuestion(NumV(1)), Undefined>>}

GoodBan(id) == [t |-> "object", uuid |-> StrV("uuid"), debateId |-> id]

\* banUser requests
BanRequests ==
    {<<obj, FuncV>> : obj \in
        {GoodBan(id) : id \in IdValues}
        \cup {Null, [GoodBan(NumV(1)) EXCEPT !.uuid = Undefined]}}
    \cup {<<GoodBan(NumV(1)), Undefined>>}

GoodDecision(suggestionId, id) ==
    [t |-> "object", suggestionId |-> suggestionId, debateId |-> id]

\* approveQuestion and rejectQuestion requests: every suggestion id that can
\* exist and one that never does
DecisionRequests ==
    {<<obj, FuncV>> : obj \in
        {GoodDecision(NumV(n), id) : n \in 1..(MaxSuggestions + 1), id \in IdValues}
        \cup {Null, GoodDecision(Undefined, NumV(1))}}
    \cup {<<GoodDecision(NumV(1), NumV(1)), Undefined>>}

\* -------------------------------------------------------------------- Init
\* constructor(io): both maps empty; nothing connected, nothing stored
Init ==
    /\ users = EmptyMap
    /\ activeDebates = {}
    /\ debates = <<>>
    /\ sockets = EmptyMap
    /\ socketCount = 0
    /\ discussions = EmptyMap
    /\ closeMarkers = EmptyBag
    /\ tasks = EmptyBag
    /\ last = [cmd |-> "constructor", phase |-> "call",
               req |-> Req("", Undefined, TRUE, Undefined), outcome |-> "returned",
               replies |-> <<>>]

\* --------------------------------------------------------- connection gate
\* the handshake query of a connection attempt
Handshake(username, password) == [username |-> username, password |-> password]

\* next(new Error(message)): the attempt ends, the client gets the message
Reject(s, query, phase, message) ==
    /\ sockets' = MapRemove(sockets, s)
    /\ Log("connection", phase, query, "rejected", <<StrV(message)>>)
    /\ UNCHANGED <<users, activeDebates, debates, discussions, tasks, closeMarkers>>

\* middlewareFunction up to `await dbManager.getAdminPassword(username)`
middlewareFunction(username, password) ==
    LET s == socketCount + 1
        query == Handshake(username, password)
    IN /\ socketCount < MaxSockets
       /\ socketCount' = s
       /\ \/ /\ password = ""
             /\ Reject(s, query, "call", "No password specified")
          \/ /\ password # ""
             /\ Pending < MaxPending
             /\ sockets' = MapSet(sockets, s,
                    [username |-> username, password |-> password,
                     pc |-> "getAdminPassword", adminHash |-> Null])
             /\ Log("connection", "call", query, "suspended", <<>>)
             /\ UNCHANGED <<users, activeDebates, debates, discussions, tasks,
                            closeMarkers>>

\* ... from the stored hash to `await new Promise(... bcrypt.compare ...)`
middlewareHash(s) ==
    LET sock == sockets[s]
        query == Handshake(sock.username, sock.password)
        adminHash == getAdminPassword(sock.username)
    IN /\ sock.pc = "getAdminPassword"
       /\ UNCHANGED socketCount
       /\ \/ /\ adminHash = Null
             /\ Reject(s, query, "resume", "Invalid username")
          \/ /\ adminHash # Null
             /\ sockets' = [sockets EXCEPT ![s].pc = "compare", ![s].adminHash = adminHash]
             /\ Log("connection", "resume", query, "suspended", <<>>)
             /\ UNCHANGED <<users, activeDebates, debates, discussions, tasks,
                            closeMarkers>>

\* mutant: the bcrypt callback resolves true on err
compareResolveTrueOnErr(err, res) == IF err THEN TRUE ELSE res

\* the bcrypt callback: resolve(false) on err, resolve(res) otherwise
compareResolve(err, res) == IF err THEN FALSE ELSE res

\* ... from the comparison's result to `await dbManager.getAdminId(username)`
middlewareCompare(s, err) ==
    LET sock == sockets[s]
        query == Handshake(sock.username, sock.password)
        res == compareResolve(err, bcryptCompare(sock.password, sock.adminHash))
    IN /\ sock.pc = "compare"
       /\ UNCHANGED socketCount
       /\ \/ /\ res = TRUE
             /\ sockets' = [sockets EXCEPT ![s].pc = "getAdminId"]
             /\ Log("connection", "resume", query, "suspended", <<>>)
             /\ UNCHANGED <<users, activeDebates, debates, discussions, tasks,
                            closeMarkers>>
          \/ /\ res # TRUE
             /\ Reject(s, query, "resume", LOGIN_PASSWORD_INVALID)

\* mutant: initializeUsers without the users.has test
initializeUsersAlwaysNew(s, username) ==
    MapSet(users, username, [socket |-> s, activeDebates |-> {}])

\* initializeUsers(socket)
initializeUsers(s, username) ==
    IF username \in DOMAIN users
    THEN [users EXCEPT ![username].socket = s]
    ELSE MapSet(users, username, [socket |-> s, activeDebates |-> {}])

\* next(): the namespace's 'connection' listener runs: initializeUsers, then
\* socket.on(...) for every event
startSocketHandling(s) ==
    LET sock == sockets[s]
        query == Handshake(sock.username, sock.password)
    IN /\ sock.pc = "getAdminId"
       /\ users' = initializeUsers(s, sock.username)
       /\ sockets' = [sockets EXCEPT ![s] =
              [username |-> sock.username, password |-> "", pc |-> "connected",
               adminHash |-> Null]]
       /\ Log("connection", "resume", query, "accepted", <<>>)
       /\ UNCHANGED <<activeDebates, debates, socketCount, discussions, tasks,
                      closeMarkers>>

\* ---------------------------------------------------------- event handlers
\* a handler that ends without touching anything: what it replied, or that it threw
Answer(cmd, req, outcome, replies) ==
    /\ Log(cmd, "call", req, outcome, replies)
    /\ UNCHANGED <<users, activeDebates, debates, sockets, socketCount, discussions,
                   tasks, closeMarkers>>

\* one entry of the array getDebates builds
DebateEntry(id, title, description, closed) ==
    [debateId |-> id, title |-> title, description |-> description, closed |-> closed]

\* getDebates, lines 94-103: the caller's tracked debates, read from the registry
trackedEntries(username) ==
    LET ids == Ascending(users[username].activeDebates)
    IN [i \in 1..Len(ids) |->
           DebateEntry(debates[ids[i]].debateID, debates[ids[i]].title,
                       debates[ids[i]].description, FALSE)]

\* dbManager.getDiscussionsAdmin(username), mapped as in lines 107-114
storedEntries(username) ==
    LET ids == Ascending({d \in DOMAIN discussions : debates[d].admin = username})
    IN [i \in 1..Len(ids) |->
           DebateEntry(ids[i], debates[ids[i]].title, debates[ids[i]].description,
                       discussions[ids[i]].finishTime # Null)]

\* getDebates up to `await dbManager.getDiscussionsAdmin(socket.username)`
getDebates(s, callback) ==
    LET username == sockets[s].username
        req == Req(username, callback, TRUE, Undefined)
    IN /\ s \in Attached
       /\ \/ /\ ~isFunction(callback)
             /\ Answer("getDebates", req, "returned", <<>>)
          \* d is undefined for a tracked id the registry no longer holds:
          \* d.debateID throws a TypeError
          \/ /\ isFunction(callback)
             /\ ~(users[username].activeDebates \subseteq activeDebates)
             /\ Answer("getDebates", req, "threw", <<>>)
          \/ /\ isFunction(callback)
             /\ users[username].activeDebates \subseteq activeDebates
             /\ Pending < MaxPending
             /\ Suspend(Task("getDebates", username, req, 0, 0, trackedEntries(username)))
             /\ Log("getDebates", "call", req, "suspended", <<>>)
             /\ UNCHANGED <<users, activeDebates, debates, sockets, socketCount,
                            discussions, closeMarkers>>

\* getDebates from the query's result to callback(debates)
getDebatesResume(task) ==
    /\ task.cmd = "getDebates"
    /\ Resume(task)
    /\ Log("getDebates", "resume", task.req, "returned",
           <<ArrV(task.list \o storedEntries(task.user))>>)
    /\ UNCHANGED <<users, activeDebates, debates, sockets, socketCount, discussions,
                   closeMarkers>>

\* mutant: getDebateQuestions replying an empty array for a debate not found
getDebateQuestionsReplyEmptyWhenMissing(debateId) ==
    IF ~isInteger(debateId) THEN NumV(-1)
    ELSE IF getActiveDebate(debateId) = 0 THEN ArrV(<<>>)
    ELSE LET debate == debates[getActiveDebate(debateId)]
         IN ArrV([i \in 1..Len(debate.questions) |-> format(debate.questions[i])])

\* what getDebateQuestions passes to the callback for a callable callback
getDebateQuestionsReply(debateId) ==
    IF ~isInteger(debateId) THEN NumV(-1)
    ELSE IF getActiveDebate(debateId) = 0 THEN NumV(-1)
    ELSE LET debate == debates[getActiveDebate(debateId)]
         IN ArrV([i \in 1..Len(debate.questions) |-> format(debate.questions[i])])

getDebateQuestions(s, debateId, callback) ==
    LET username == sockets[s].username
        req == Req("", callback, isInteger(debateId), debateId)
    IN /\ s \in Attached
       /\ IF ~isFunction(callback)
          THEN Answer("getDebateQuestions", req, "returned", <<>>)
          ELSE Answer("getDebateQuestions", req, "returned",
                      <<getDebateQuestionsReply(debateId)>>)

\* what getDebateSuggestions passes to the callback for a callable callback
getDebateSuggestionsReply(debateId) ==
    IF ~isInteger(debateId) THEN NumV(-1)
    ELSE IF getActiveDebate(debateId) = 0 THEN NumV(-1)
    ELSE ArrV(getApprovedSuggestions(debates[getActiveDebate(debateId)]))

getDebateSuggestions(s, debateId, callback) ==
    LET username == sockets[s].username
        req == Req("", callback, isInteger(debateId), debateId)
    IN /\ s \in Attached
       /\ IF ~isFunction(callback)
          THEN Answer("getDebateSuggestions", req, "returned", <<>>)
          ELSE Answer("getDebateSuggestions", req, "returned",
                      <<getDebateSuggestionsReply(debateId)>>)

\* newDebate's check of its payload, lines 187-190
validNewDebate(title, description) ==
    /\ isString(title, MAX_TITLE_LENGTH)
    /\ isString(description, MAX_DESCRIPTION_LENGTH)

\* lines 198-199: register the debate, track it under the caller
registerDebate(username, id) ==
    /\ activeDebates' = activeDebates \cup {id}
    /\ users' = [users EXCEPT ![username].activeDebates = @ \cup {id}]

\* newDebate up to `await dbManager.saveDiscussion(debate)`, constructing no more
\* than limit Debate objects
newDebateUpTo(limit, s, newDebateObj, callback) ==
    LET username == sockets[s].username
        title == Prop(newDebateObj, "title")
        description == Prop(newDebateObj, "description")
        req == Req(username, callback,
                   newDebateObj.t = "object" /\ validNewDebate(title, description),
                   Undefined)
        id == Len(debates) + 1
    IN /\ s \in Attached
       /\ \/ /\ ~isFunction(callback)
             /\ Answer("newDebate", req, "returned", <<>>)
          \* newDebateObj.title on null or undefined throws a TypeError
          \/ /\ isFunction(callback)
             /\ IsNullish(newDebateObj)
             /\ Answer("newDebate", req, "threw", <<>>)
          \/ /\ isFunction(callback)
             /\ ~IsNullish(newDebateObj)
             /\ ~validNewDebate(title, description)
             /\ Answer("newDebate", req, "returned", <<NumV(-1)>>)
          \/ /\ isFunction(callback)
             /\ ~IsNullish(newDebateObj)
             /\ validNewDebate(title, description)
             /\ Len(debates) < limit
             /\ Pending < MaxPending
             /\ debates' = Append(debates, Debate(id, title.s, description.s, username))
             /\ registerDebate(username, id)
             /\ Suspend(Task("newDebate", username, req, id, 0, <<>>))
             /\ Log("newDebate", "call", req, "suspended", <<>>)
             /\ UNCHANGED <<sockets, socketCount, discussions, closeMarkers>>

newDebate(s, newDebateObj, callback) ==
    newDebateUpTo(MaxDebates, s, newDebateObj, callback)

\* dbManager.saveDiscussion(debate): stores the discussion and resolves true,
\* or stores nothing and resolves false or rejects
SaveOutcomes == {"true", "false", "rejected"}
saveDiscussion(id, res) ==
    IF res = "true" THEN MapSet(discussions, id, [finishTime |-> Null]) ELSE discussions

\* mutant: newDebate undoing the registration and replying -1 when saveDiscussion
\* did not resolve true
newDebateResumeRollback(task, res) ==
    /\ task.cmd = "newDebate"
    /\ Resume(task)
    /\ discussions' = saveDiscussion(task.debate, res)
    /\ IF res = "true"
       THEN /\ debates' = [debates EXCEPT ![task.debate].started = TRUE]
            /\ Log("newDebate", "resume", task.req, "returned", <<NumV(task.debate)>>)
            /\ UNCHANGED <<users, activeDebates>>
       ELSE /\ activeDebates' = activeDebates \ {task.debate}
            /\ users' = [users EXCEPT ![task.user].activeDebates = @ \ {task.debate}]
            /\ Log("newDebate", "resume", task.req, "returned", <<NumV(-1)>>)
            /\ UNCHANGED debates
    /\ UNCHANGED <<sockets, socketCount, closeMarkers>>

\* newDebate from saveDiscussion's outcome: debate.startSocketHandling(),
\* callback(debate.debateID)
newDebateResume(task, res) ==
    /\ task.cmd = "newDebate"
    /\ Resume(task)
    /\ discussions' = saveDiscussion(task.debate, res)
    /\ debates' = [debates EXCEPT ![task.debate].started = TRUE]
    /\ Log("newDebate", "resume", task.req, "returned", <<NumV(task.debate)>>)
    /\ UNCHANGED <<users, activeDebates, sockets, socketCount, closeMarkers>>

\* mutant: closeDebate without this.activeDebates.delete(aIdDiscussion)
unregisterDebateTrackedOnly(username, aIdDiscussion, debateID) ==
    /\ activeDebates' = activeDebates
    /\ users' = [users EXCEPT ![username].activeDebates = @ \ {debateID}]

\* lines 237-238: unregister the debate, untrack it from the caller
unregisterDebate(username, aIdDiscussion, debateID) ==
    /\ activeDebates' = activeDebates \ {aIdDiscussion}
    /\ users' = [users EXCEPT ![username].activeDebates = @ \ {debateID}]

\* mutant: closeDebate without the `callback instanceof Function` test
closeDebateUnchecked(s, aIdDiscussion, callback) ==
    LET username == sockets[s].username
        req == Req(username, callback, isInteger(aIdDiscussion), aIdDiscussion)
        debate == getActiveDebate(aIdDiscussion)
    IN /\ s \in Attached
       /\ \/ /\ debate = 0
             /\ Answer("closeDebate", req, "returned",
                       IF isFunction(callback) THEN <<BoolV(FALSE)>> ELSE <<>>)
          \/ /\ debate # 0
             /\ Pending < MaxPending
             /\ unregisterDebate(username, aIdDiscussion.n, debates[debate].debateID)
             /\ Suspend(Task("closeDebate", username, req, debate, 0, <<>>))
             /\ Log("closeDebate", "call", req, "suspended", <<>>)
             /\ closeMarkers' = closeMarkers (+) SetToBag({aIdDiscussion.n})
             /\ UNCHANGED <<debates, sockets, socketCount, discussions>>

\* closeDebate up to `await dbManager.saveEndDiscussion(aIdDiscussion)`
closeDebate(s, aIdDiscussion, callback) ==
    LET username == sockets[s].username
        req == Req(username, callback, isInteger(aIdDiscussion), aIdDiscussion)
        debate == getActiveDebate(aIdDiscussion)
    IN /\ s \in Attached
       /\ \/ /\ ~isFunction(callback)
             /\ Answer("closeDebate", req, "returned", <<>>)
          \/ /\ isFunction(callback)
             /\ debate = 0
             /\ Answer("closeDebate", req, "returned", <<BoolV(FALSE)>>)
          \/ /\ isFunction(callback)
             /\ debate # 0
             /\ Pending < MaxPending
             /\ unregisterDebate(username, aIdDiscussion.n, debates[debate].debateID)
             /\ Suspend(Task("closeDebate", username, req, debate, 0, <<>>))
             /\ Log("closeDebate", "call", req, "suspended", <<>>)
             \* dbManager.saveEndDiscussion(aIdDiscussion) is called, then awaited
             /\ closeMarkers' = closeMarkers (+) SetToBag({aIdDiscussion.n})
             /\ UNCHANGED <<debates, sockets, socketCount, discussions>>

\* dbManager.saveEndDiscussion(id): true when the stored discussion was marked
\* finished, false when there was none or the update failed
saveEndDiscussionResult(id, ok) == ok /\ id \in DOMAIN discussions

saveEndDiscussion(id, ok) ==
    IF saveEndDiscussionResult(id, ok)
    THEN [discussions EXCEPT ![id].finishTime = [t |-> "date"]]
    ELSE discussions

\* mutant: closeDebate replying true whatever saveEndDiscussion resolved to
closeDebateResumeAlwaysTrue(task, ok) ==
    /\ task.cmd = "closeDebate"
    /\ Resume(task)
    /\ discussions' = saveEndDiscussion(task.debate, ok)
    /\ Log("closeDebate", "resume", task.req, "returned", <<BoolV(TRUE)>>)
    /\ UNCHANGED <<users, activeDebates, debates, sockets, socketCount, closeMarkers>>

\* closeDebate from saveEndDiscussion's result to callback(update)
closeDebateResume(task, ok) ==
    LET update == saveEndDiscussionResult(task.debate, ok)
    IN /\ task.cmd = "closeDebate"
       /\ Resume(task)
       /\ discussions' = saveEndDiscussion(task.debate, ok)
       /\ Log("closeDebate", "resume", task.req, "returned", <<BoolV(update)>>)
       /\ UNCHANGED <<users, activeDebates, debates, sockets, socketCount,
                      closeMarkers>>

\* newQuestion, lines 264-269: an open question ignores the answers given
openQuestionFlag(isOpenQuestion) ==
    IF ~isBoolean(isOpenQuestion) THEN FALSE ELSE isOpenQuestion.b

\* mutant: newQuestion keeping the answers given with an open question
questionAnswersKept(answers, isOpenQuestion) == answers

questionAnswers(answers, isOpenQuestion) ==
    IF ~isBoolean(isOpenQuestion) THEN answers
    ELSE IF isOpenQuestion.b = TRUE THEN ArrV(<<>>)
    ELSE answers

\* newQuestion's check of its payload, lines 272-273
validNewQuestion(debateId, title, answers) ==
    /\ isInteger(debateId)
    /\ isStringUnbounded(title)
    /\ isArrayOf(answers, "string", MAX_CLOSED_ANSWERS)

\* newQuestion up to `await debate.sendNewQuestion(question)`
newQuestion(s, newQuestionObj, callback) ==
    LET username == sockets[s].username
        debateId == Prop(newQuestionObj, "debateId")
        title == Prop(newQuestionObj, "title")
        isOpenQuestion == Prop(newQuestionObj, "isOpenQuestion")
        answers == questionAnswers(Prop(newQuestionObj, "answers"), isOpenQuestion)
        req == Req("", callback,
                   newQuestionObj.t = "object" /\ validNewQuestion(debateId, title, answers),
                   debateId)
        debate == getActiveDebate(debateId)
        question == Question(Len(debates[debate].questions) + 1, title.s, answers.a,
                             openQuestionFlag(isOpenQuestion))
    IN /\ s \in Attached
       /\ \/ /\ ~isFunction(callback)
             /\ Answer("newQuestion", req, "returned", <<>>)
          \* newQuestionObj.debateId on null or undefined throws a TypeError
          \/ /\ isFunction(callback)
             /\ IsNullish(newQuestionObj)
             /\ Answer("newQuestion", req, "threw", <<>>)
          \/ /\ isFunction(callback)
             /\ ~IsNullish(newQuestionObj)
             /\ ~validNewQuestion(debateId, title, answers) \/ debate = 0
             /\ Answer("newQuestion", req, "returned", <<NumV(-1)>>)
          \/ /\ isFunction(callback)
             /\ ~IsNullish(newQuestionObj)
             /\ validNewQuestion(debateId, title, answers)
             /\ debate # 0
             /\ Len(debates[debate].questions) < MaxQuestions
             /\ Pending < MaxPending
             \* debate.sendNewQuestion(question) stores the question and broadcasts it
             /\ debates' = [debates EXCEPT ![debate].questions = Append(@, question)]
             /\ Suspend(Task("newQuestion", "", req, debate, question.id, <<>>))
             /\ Log("newQuestion", "call", req, "suspended", <<>>)
             /\ UNCHANGED <<users, activeDebates, sockets, socketCount, discussions,
                            closeMarkers>>

\* newQuestion from sendNewQuestion's completion to callback(question.id)
newQuestionResume(task) ==
    /\ task.cmd = "newQuestion"
    /\ Resume(task)
    /\ Log("newQuestion", "resume", task.req, "returned", <<NumV(task.question)>>)
    /\ UNCHANGED <<users, activeDebates, debates, sockets, socketCount, discussions,
                   closeMarkers>>

\* banUser: line 322 reads suggestionId, which banUser never declares: a
\* ReferenceError, thrown before callback(true)
banUser(s, banObj, callback) ==
    LET username == sockets[s].username
        uuid == Prop(banObj, "uuid")
        debateId == Prop(banObj, "debateId")
        req == Req("", callback,
                   banObj.t = "object" /\ isStringUnbounded(uuid) /\ isInteger(debateId),
                   debateId)
    IN /\ s \in Attached
       /\ IF ~isFunction(callback)
          THEN Answer("banUser", req, "returned", <<>>)
          \* destructuring null or undefined throws a TypeError
          ELSE IF IsNullish(banObj)
          THEN Answer("banUser", req, "threw", <<>>)
          ELSE IF ~isStringUnbounded(uuid) \/ ~isInteger(debateId)
          THEN Answer("banUser", req, "returned", <<BoolV(FALSE)>>)
          ELSE IF getActiveDebate(debateId) = 0
          THEN Answer("banUser", req, "returned", <<BoolV(FALSE)>>)
          ELSE Answer("banUser", req, "threw", <<>>)

\* mutant: approveQuestion and rejectQuestion without the `res === false` test
decideSuggestionUnchecked(cmd, decision, s, obj, callback) ==
    LET suggestionId == Prop(obj, "suggestionId")
        debateId == Prop(obj, "debateId")
        req == Req("", callback,
                   obj.t = "object" /\ isInteger(suggestionId) /\ isInteger(debateId),
                   debateId)
        debate == getActiveDebate(debateId)
    IN /\ s \in Attached
       /\ IF ~isFunction(callback)
          THEN Answer(cmd, req, "returned", <<>>)
          ELSE IF IsNullish(obj)
          THEN Answer(cmd, req, "threw", <<>>)
          ELSE IF ~isInteger(suggestionId) \/ ~isInteger(debateId)
          THEN Answer(cmd, req, "returned", <<BoolV(FALSE)>>)
          ELSE IF debate = 0
          THEN Answer(cmd, req, "returned", <<BoolV(FALSE)>>)
          ELSE IF ~canDecide(debates[debate], suggestionId.n)
          THEN Answer(cmd, req, "returned", <<BoolV(TRUE)>>)
          ELSE /\ debates' = [debates EXCEPT ![debate].suggestions[suggestionId.n] = decision]
               /\ Log(cmd, "call", req, "returned", <<BoolV(TRUE)>>)
               /\ UNCHANGED <<users, activeDebates, sockets, socketCount, discussions,
                              tasks, closeMarkers>>

\* approveQuestion (decision "approved") and rejectQuestion (decision "rejected")
decideSuggestion(cmd, decision, s, obj, callback) ==
    LET username == sockets[s].username
        suggestionId == Prop(obj, "suggestionId")
        debateId == Prop(obj, "debateId")
        req == Req("", callback,
                   obj.t = "object" /\ isInteger(suggestionId) /\ isInteger(debateId),
                   debateId)
        debate == getActiveDebate(debateId)
    IN /\ s \in Attached
       /\ IF ~isFunction(callback)
          THEN Answer(cmd, req, "returned", <<>>)
          \* destructuring null or undefined throws a TypeError
          ELSE IF IsNullish(obj)
          THEN Answer(cmd, req, "threw", <<>>)
          ELSE IF ~isInteger(suggestionId) \/ ~isInteger(debateId)
          THEN Answer(cmd, req, "returned", <<BoolV(FALSE)>>)
          ELSE IF debate = 0
          THEN Answer(cmd, req, "returned", <<BoolV(FALSE)>>)
          ELSE IF ~canDecide(debates[debate], suggestionId.n)
          THEN Answer(cmd, req, "returned", <<BoolV(FALSE)>>)
          ELSE /\ debates' = [debates EXCEPT ![debate].suggestions[suggestionId.n] = decision]
               /\ Log(cmd, "call", req, "returned", <<BoolV(TRUE)>>)
               /\ UNCHANGED <<users, activeDebates, sockets, socketCount,
                              discussions, tasks, closeMarkers>>

approveQuestion(s, approveObj, callback) ==
    decideSuggestion("approveQuestion", "approved", s, approveObj, callback)

rejectQuestion(s, rejectObj, callback) ==
    decideSuggestion("rejectQuestion", "rejected", s, rejectObj, callback)

\* an audience member suggests a question in a debate that handles its sockets
suggest(d) ==
    /\ debates[d].started
    /\ Len(debates[d].suggestions) < MaxSuggestions
    /\ debates' = [debates EXCEPT ![d].suggestions = Append(@, "pending")]
    /\ Log("suggest", "call", Req("", Undefined, TRUE, NumV(d)), "returned", <<>>)
    /\ UNCHANGED <<users, activeDebates, sockets, socketCount, discussions, tasks,
                   closeMarkers>>

\* ----------------------------------------------------------- specifications
\* one attached socket: the handlers below read nothing of their socket but the
\* username they log, so which socket an event arrives on changes nothing
AnySocket == IF Attached = {} THEN {} ELSE {CHOOSE s \in Attached : TRUE}

\* the connection gate
Gate ==
    \/ \E q \in Handshakes : middlewareFunction(q[1], q[2])
    \/ \E s \in DOMAIN sockets : middlewareHash(s)
    \/ \E s \in DOMAIN sockets, err \in BOOLEAN : middlewareCompare(s, err)
    \/ \E s \in DOMAIN sockets : startSocketHandling(s)

\* the handlers that change the two registries
Creation ==
    \/ \E s \in DOMAIN sockets, r \in NewDebateRequests : newDebate(s, r[1], r[2])
    \/ \E task \in BagToSet(tasks), res \in SaveOutcomes : newDebateResume(task, res)

Closing ==
    \/ \E s \in DOMAIN sockets, r \in IdRequests : closeDebate(s, r[1], r[2])
    \/ \E task \in BagToSet(tasks), ok \in BOOLEAN : closeDebateResume(task, ok)

\* the handlers that list
Listing ==
    \/ \E s \in DOMAIN sockets, cb \in {FuncV, Undefined} : getDebates(s, cb)
    \/ \E task \in BagToSet(tasks) : getDebatesResume(task)
    \/ \E s \in AnySocket, r \in IdRequests : getDebateQuestions(s, r[1], r[2])
    \/ \E s \in AnySocket, r \in IdRequests : getDebateSuggestions(s, r[1], r[2])

\* the handlers that act inside one debate, and the audience
Moderation ==
    \/ \E s \in AnySocket, r \in NewQuestionRequests : newQuestion(s, r[1], r[2])
    \/ \E task \in BagToSet(tasks) : newQuestionResume(task)
    \/ \E s \in AnySocket, r \in BanRequests : banUser(s, r[1], r[2])
    \/ \E s \in AnySocket, r \in DecisionRequests : approveQuestion(s, r[1], r[2])
    \/ \E s \in AnySocket, r \in DecisionRequests : rejectQuestion(s, r[1], r[2])
    \/ \E d \in DOMAIN debates : suggest(d)

Next == Gate \/ Creation \/ Closing \/ Listing \/ Moderation

\* the whole namespace, from construction
Spec == Init /\ [][Next]_vars

\* the connection gate and the session registry, from construction: connection
\* attempts, and debates created on the connections that got through
SpecGate == Init /\ [][Gate \/ Creation]_vars

\* the state once both administrators have connected (alice first), before
\* either has sent an event
Connected ==
    /\ users = MapSet(MapSet(EmptyMap, "alice", [socket |-> 1, activeDebates |-> {}]),
                      "bob", [socket |-> 2, activeDebates |-> {}])
    /\ activeDebates = {}
    /\ debates = <<>>
    /\ sockets = MapSet(MapSet(EmptyMap,
                      1, [username |-> "alice", password |-> "", pc |-> "connected",
                          adminHash |-> Null]),
                      2, [username |-> "bob", password |-> "", pc |-> "connected",
                          adminHash |-> Null])
    /\ socketCount = 2
    /\ discussions = EmptyMap
    /\ closeMarkers = EmptyBag
    /\ tasks = EmptyBag
    /\ last = [cmd |-> "connection", phase |-> "resume", req |-> Handshake("bob", "pwB"),
               outcome |-> "accepted", replies |-> <<>>]

\* creating, closing and listing debates, with room for MaxListed debates
Registry ==
    \/ \E s \in DOMAIN sockets, r \in NewDebateRequests :
           newDebateUpTo(MaxListed, s, r[1], r[2])
    \/ \E task \in BagToSet(tasks), res \in SaveOutcomes : newDebateResume(task, res)
    \/ \E s \in DOMAIN sockets, r \in IdRequests : closeDebate(s, r[1], r[2])
    \/ \E task \in BagToSet(tasks), ok \in BOOLEAN : closeDebateResume(task, ok)
    \/ \E s \in DOMAIN sockets, cb \in {FuncV, Undefined} : getDebates(s, cb)
    \/ \E task \in BagToSet(tasks) : getDebatesResume(task)

\* the registries and the listing of two connected administrators
SpecListing == Connected /\ [][Registry]_vars

\* the state once alice, connected like bob, has created the debate T, it has
\* been stored and she has been given its id
Opened ==
    /\ users = MapSet(MapSet(EmptyMap, "alice", [socket |-> 1, activeDebates |-> {1}]),
                      "bob", [socket |-> 2, activeDebates |-> {}])
    /\ activeDebates = {1}
    /\ debates = <<[Debate(1, "T", "D", "alice") EXCEPT !.started = TRUE]>>
    /\ sockets = MapSet(MapSet(EmptyMap,
                      1, [username |-> "alice", password |-> "", pc |-> "connected",
                          adminHash |-> Null]),
                      2, [username |-> "bob", password |-> "", pc |-> "connected",
                          adminHash |-> Null])
    /\ socketCount = 2
    /\ discussions = MapSet(EmptyMap, 1, [finishTime |-> Null])
    /\ closeMarkers = EmptyBag
    /\ tasks = EmptyBag
    /\ last = [cmd |-> "newDebate", phase |-> "resume",
               req |-> Req("alice", FuncV, TRUE, Undefined), outcome |-> "returned",
               replies |-> <<NumV(1)>>]

\* questions and suggestions in one open debate
SpecModeration == Opened /\ [][Moderation]_vars

\* the event handlers of two connected administrators
SpecHandlers == Connected /\ [][Creation \/ Closing \/ Listing \/ Moderation]_vars

\* ------------------------------------------------------------------ claims
Commands ==
    {"getDebates", "getDebateQuestions", "getDebateSuggestions", "newDebate",
     "closeDebate", "newQuestion", "banUser", "approveQuestion", "rejectQuestion"}

\* the commands that take a debate id
IdCommands == Commands \ {"getDebates", "newDebate"}

\* the failure sentinel of a command: -1 where the reply is an id or a
\* collection, false where it is a boolean
Sentinel(cmd) ==
    IF cmd \in {"getDebateQuestions", "getDebateSuggestions", "newDebate", "newQuestion"}
    THEN NumV(-1)
    ELSE BoolV(FALSE)

\* the step just taken was a call of cmd (its part before any await)
Called(cmd) == last.cmd = cmd /\ last.phase = "call"

\* the debate ids the registry holds, as clients name them
Registered == {NumV(d) : d \in activeDebates}

\* C1: a debate id is in moderator m's tracked set if and only if it is in the
\* Debate Registry and m is the moderator that created it.
C1_TrackedIffRegisteredByCreator ==
    \A m \in DOMAIN users : \A d \in 1..MaxDebates :
        d \in users[m].activeDebates
            <=> (d \in activeDebates /\ d \in DOMAIN debates /\ debates[d].admin = m)

\* C2: every command called with a callable callback invokes it exactly once:
\* not before the handler suspends, and once by the time it has ended.
C2_ExactlyOneReply ==
    (last.cmd \in Commands /\ last.req.cb)
        => /\ last.outcome = "suspended" => last.replies = <<>>
           /\ last.outcome # "suspended" => Len(last.replies) = 1

\* C3: in no state is a debate id in exactly one of the registry and the
\* tracked sets.
C3_CloseIsAtomic ==
    \A d \in 1..MaxDebates :
        d \in activeDebates <=> (\E m \in DOMAIN users : d \in users[m].activeDebates)

\* C4: the id newDebate replies with is, at the moment of the reply, the id
\* of one registered debate, and getDebateQuestions and getDebateSuggestions
\* on it reply with an empty collection.
C4_CreatedIdResolvable ==
    (last.cmd = "newDebate" /\ last.phase = "resume")
        => /\ Len(last.replies) = 1
           /\ last.replies[1] \in Registered
           /\ Cardinality({d \in activeDebates :
                              debates[d].debateID = last.replies[1].n}) = 1
           /\ getDebateQuestionsReply(last.replies[1]) = ArrV(<<>>)
           /\ getDebateSuggestionsReply(last.replies[1]) = ArrV(<<>>)

\* a call of an id-taking command, with a callable callback, that names an id
\* the registry does not hold in the state the call starts in
UnknownIdCall ==
    /\ last'.cmd \in IdCommands
    /\ last'.phase = "call"
    /\ last'.req.cb
    /\ last'.req.id # Undefined
    /\ last'.req.id \notin Registered

\* C5: a command given a debate id the registry does not hold replies with its
\* failure sentinel, does not throw, and leaves both registries unchanged.
C5_UnknownIdSentinel ==
    [][UnknownIdCall
        => /\ last'.outcome = "returned"
           /\ last'.replies = <<Sentinel(last'.cmd)>>
           /\ UNCHANGED <<users, activeDebates>>]_vars

\* C5 witness: banUser on the id of a debate that was closed replied false.
C5_Witness ==
    /\ Called("banUser")
    /\ last.req.cb
    /\ last.req.id = NumV(1)
    /\ 1 \in DOMAIN debates
    /\ 1 \notin activeDebates
    /\ last.replies = <<BoolV(FALSE)>>

\* C6: a request whose payload fails validation is answered with the command's
\* failure sentinel, raises no exception and changes no registry or debate.
C6_InvalidPayloadSentinel ==
    [][(last'.cmd \in Commands /\ last'.phase = "call" /\ last'.req.cb
            /\ ~last'.req.wellFormed)
        => /\ last'.outcome = "returned"
           /\ last'.replies = <<Sentinel(last'.cmd)>>
           /\ UNCHANGED <<users, activeDebates, debates>>]_vars

\* each session's connection handle
Handles == [u \in DOMAIN users |-> users[u].socket]

\* the handshake names an administrator and carries that administrator's password
CredentialsGood(query) ==
    query.username \in Admins /\ query.password = PasswordOf(query.username)

\* C7: a session entry is created, a connection handle replaced and handlers
\* attached only by a connection attempt that passed the gate with good
\* credentials; a rejected attempt changes no session and attaches nothing.
C7_OnlyAuthenticatedSessions ==
    [][/\ (Handles' # Handles \/ Attached' # Attached)
            => /\ last'.cmd = "connection"
               /\ last'.outcome = "accepted"
               /\ CredentialsGood(last'.req)
       /\ (last'.cmd = "connection" /\ last'.outcome = "rejected")
            => (users' = users /\ Attached' = Attached)]_vars

\* C7 witness: alice has a session and an attempt under her name with a wrong
\* password was just rejected.
C7_Witness ==
    /\ last.cmd = "connection"
    /\ last.outcome = "rejected"
    /\ last.req = Handshake("alice", "pwB")
    /\ "alice" \in DOMAIN users
    /\ users["alice"].socket \in Attached

\* the causes of an authentication failure
BadUsername(query) == query.password # "" /\ query.username \notin Admins
BadSecret(query) ==
    /\ query.username \in Admins
    /\ query.password \notin {"", PasswordOf(query.username)}

\* C8: two attempts rejected one after the other, one for its username and one
\* for its secret, deliver the same signal to the client.
C8_GenericRejection ==
    [][(/\ last.cmd = "connection" /\ last.outcome = "rejected"
        /\ last'.cmd = "connection" /\ last'.outcome = "rejected"
        /\ \/ BadUsername(last.req) /\ BadSecret(last'.req)
           \/ BadSecret(last.req) /\ BadUsername(last'.req))
        => last'.replies = last.replies]_vars

\* C9: the 'connection' listener on a known username replaces only that
\* session's connection handle; on an unknown username it adds a session with
\* an empty tracked set; every other session, the registry and the debates
\* stay as they were.
C9_ReconnectKeepsTracked ==
    [][(last'.cmd = "connection" /\ last'.outcome = "accepted")
        => LET u == last'.req.username
           IN /\ users'[u].socket \in Attached' \ Attached
              /\ IF u \in DOMAIN users
                 THEN /\ DOMAIN users' = DOMAIN users
                      /\ users'[u].activeDebates = users[u].activeDebates
                 ELSE /\ DOMAIN users' = DOMAIN users \cup {u}
                      /\ users'[u].activeDebates = {}
              /\ \A v \in DOMAIN users \ {u} : users'[v] = users[v]
              /\ UNCHANGED <<activeDebates, debates>>]_vars

\* C9 witness: alice reconnected on a second socket and still tracks a debate.
C9_Witness ==
    /\ last.cmd = "connection"
    /\ last.outcome = "accepted"
    /\ last.req.username = "alice"
    /\ 1 \in Attached
    /\ sockets[1].username = "alice"
    /\ users["alice"].socket = 2
    /\ users["alice"].activeDebates # {}

\* the debates closeDebate has unregistered: constructed, and not in the registry
Closed == {d \in DOMAIN debates : d \notin activeDebates}

\* C10: once closeDebate has found a debate it is out of the registry for good,
\* and every later command naming its id replies with its failure sentinel,
\* also while closeDebate's own reply is still to come.
C10_ClosedStaysClosed ==
    [][/\ (last'.cmd = "closeDebate" /\ last'.outcome = "suspended")
            => last'.req.id.n \in Closed'
       /\ Closed \subseteq Closed'
       /\ (last'.cmd \in IdCommands /\ last'.phase = "call" /\ last'.req.cb
              /\ last'.req.id \in {NumV(d) : d \in Closed})
            => (last'.outcome = "returned" /\ last'.replies = <<Sentinel(last'.cmd)>>)]_vars

\* C10 witness: getDebateQuestions on a closed id replied -1 while the
\* closeDebate that closed it was still awaiting saveEndDiscussion.
C10_Witness ==
    /\ Called("getDebateQuestions")
    /\ last.req.id = NumV(1)
    /\ 1 \in Closed
    /\ last.replies = <<NumV(-1)>>
    /\ \E task \in BagToSet(tasks) : task.cmd = "closeDebate" /\ task.debate = 1

\* C11: a valid newDebate registers and tracks the new debate before it awaits
\* saveDiscussion, and when saveDiscussion resolves false or rejects the handler
\* changes neither registry and replies with the debate's id.
C11_PersistenceFailureKeepsDebate ==
    [][/\ (last'.cmd = "newDebate" /\ last'.outcome = "suspended")
            => /\ Len(debates') \in activeDebates'
               /\ Len(debates') \in users'[last'.req.user].activeDebates
       /\ \A task \in BagToSet(tasks), res \in SaveOutcomes \ {"true"} :
            newDebateResume(task, res)
                => /\ UNCHANGED <<users, activeDebates>>
                   /\ last'.replies = <<NumV(task.debate)>>]_vars

\* C11 witness: newDebate replied 1 for a debate that was not stored, and the
\* debate is registered and tracked by its creator.
C11_Witness ==
    /\ last.cmd = "newDebate"
    /\ last.phase = "resume"
    /\ last.replies = <<NumV(1)>>
    /\ 1 \notin DOMAIN discussions
    /\ 1 \in activeDebates
    /\ 1 \in users[last.req.user].activeDebates

\* C12: closeDebate on a registered id calls saveEndDiscussion with it and
\* replies with the value that call resolves to; on an id that is not
\* registered it replies false and calls nothing.
C12_CloseRepliesPersistenceResult ==
    [][/\ \A task \in BagToSet(tasks), ok \in BOOLEAN :
            closeDebateResume(task, ok)
                => last'.replies = <<BoolV(saveEndDiscussionResult(task.debate, ok))>>
       /\ (Called("closeDebate")' /\ last'.req.cb /\ last'.req.id \in Registered)
            => /\ last'.outcome = "suspended"
               /\ closeMarkers' = closeMarkers (+) SetToBag({last'.req.id.n})
       /\ (Called("closeDebate")' /\ last'.req.cb /\ last'.req.id \notin Registered)
            => /\ last'.replies = <<BoolV(FALSE)>>
               /\ closeMarkers' = closeMarkers
               /\ tasks' = tasks]_vars

\* C12 witness: closeDebate replied true and the stored discussion is finished.
C12_Witness ==
    /\ last.cmd = "closeDebate"
    /\ last.phase = "resume"
    /\ last.replies = <<BoolV(TRUE)>>
    /\ last.req.id.n \in DOMAIN discussions
    /\ discussions[last.req.id.n].finishTime # Null

\* C13: banUser with a string uuid and an integer id of a registered debate
\* replies true; with bad arguments or an id that is not registered it replies
\* false; it changes neither registry.
C13_BanUserReplies ==
    [][(Called("banUser")' /\ last'.req.cb)
        => /\ last'.outcome = "returned"
           /\ last'.replies =
                  <<BoolV(last'.req.wellFormed /\ last'.req.id \in Registered)>>
           /\ UNCHANGED <<users, activeDebates>>]_vars

\* the entries of a list getDebates replies with
Entries(list) == {list[i] : i \in 1..Len(list)}

\* the entry getDebates is to list for the open debate d
OpenEntry(d) == DebateEntry(d, debates[d].title, debates[d].description, FALSE)

\* the open debates m created and has been given the id of
CreatedBy(m) ==
    {d \in activeDebates : debates[d].admin = m /\ debates[d].started}

\* C14: getDebates called by a moderator who created a debate that is still
\* open replies, and its reply lists that debate with its title, its
\* description and closed false.
C14_CreatedDebateListed ==
    [][/\ (Called("getDebates")' /\ last'.req.cb /\ CreatedBy(last'.req.user) # {})
            => /\ last'.outcome = "suspended"
               /\ \E task \in BagToSet(tasks') :
                     /\ tasks' = tasks (+) SetToBag({task})
                     /\ \A d \in CreatedBy(last'.req.user) :
                            OpenEntry(d) \in Entries(task.list)
       /\ \A task \in BagToSet(tasks) :
            getDebatesResume(task)
                => /\ Len(last'.replies) = 1
                   /\ Entries(task.list) \subseteq Entries(last'.replies[1].a)]_vars

\* C15: newQuestion with a callable callback, a title and the id of a
\* registered debate: with isOpenQuestion true it constructs a question with no
\* answers and the open flag set, whatever answers came with it; with an
\* isOpenQuestion that is no boolean it validates the answers given and
\* constructs a question with them and the open flag unset, or replies -1.
C15_OpenQuestionEmptyAnswers ==
    [][Called("newQuestion")' => \A s \in AnySocket, r \in NewQuestionRequests :
        (/\ newQuestion(s, r[1], r[2])
         /\ isFunction(r[2])
         /\ ~IsNullish(r[1])
         /\ isStringUnbounded(Prop(r[1], "title"))
         /\ getActiveDebate(Prop(r[1], "debateId")) # 0)
        => LET d == getActiveDebate(Prop(r[1], "debateId"))
               open == Prop(r[1], "isOpenQuestion")
               given == Prop(r[1], "answers")
               constructed == Len(debates'[d].questions) = Len(debates[d].questions) + 1
               made == debates'[d].questions[Len(debates'[d].questions)]
           IN IF open = BoolV(TRUE)
              THEN constructed /\ made.answers = <<>> /\ made.isOpenQuestion = TRUE
              ELSE IF isBoolean(open)
              THEN TRUE
              ELSE IF isArrayOf(given, "string", MAX_CLOSED_ANSWERS)
              THEN constructed /\ made.answers = given.a /\ made.isOpenQuestion = FALSE
              ELSE last'.replies = <<NumV(-1)>> /\ UNCHANGED debates]_vars

\* C15 witness: newQuestion has just constructed an open question, which has no
\* answers (every open question the clients send carries three answers, more
\* than MAX_CLOSED_ANSWERS).
C15_Witness ==
    /\ Called("newQuestion")
    /\ last.outcome = "suspended"
    /\ Len(debates[last.req.id.n].questions) = 1
    /\ debates[last.req.id.n].questions[1].isOpenQuestion = TRUE
    /\ debates[last.req.id.n].questions[1].answers = <<>>

\* the suggestion n of debate d exists and is pending
IsPending(d, n) ==
    n \in 1..Len(debates[d].suggestions) /\ debates[d].suggestions[n] = "pending"

\* C16: approveQuestion and rejectQuestion on a registered debate reply true
\* exactly for a suggestion that exists and is pending, which is then pending
\* no more; a suggestion that is not pending never becomes pending again, so a
\* second approveQuestion on it, like one on an id that never existed, replies
\* false and changes nothing.
C16_DecideOnlyPending ==
    [][/\ \A d \in DOMAIN debates : \A n \in 1..Len(debates[d].suggestions) :
            ~IsPending(d, n) => debates'[d].suggestions[n] = debates[d].suggestions[n]
       /\ (last'.cmd \in {"approveQuestion", "rejectQuestion"})
            => \A s \in AnySocket, r \in DecisionRequests :
                (/\ approveQuestion(s, r[1], r[2]) \/ rejectQuestion(s, r[1], r[2])
                 /\ isFunction(r[2])
                 /\ ~IsNullish(r[1])
                 /\ isInteger(Prop(r[1], "suggestionId"))
                 /\ getActiveDebate(Prop(r[1], "debateId")) # 0)
                => LET d == getActiveDebate(Prop(r[1], "debateId"))
                       n == Prop(r[1], "suggestionId").n
                   IN /\ last'.replies = <<BoolV(IsPending(d, n))>>
                      /\ IsPending(d, n) => ~IsPending(d, n)'
                      /\ ~IsPending(d, n) => UNCHANGED debates]_vars

\* C16 witness: approveQuestion on a registered debate whose only suggestion is
\* approved already replied false.
C16_Witness ==
    /\ Called("approveQuestion")
    /\ last.req.cb
    /\ last.req.wellFormed
    /\ last.req.id \in Registered
    /\ debates[last.req.id.n].suggestions = <<"approved">>
    /\ last.replies = <<BoolV(FALSE)>>

\* C17: a handler called with a callback that is not callable returns without
\* replying or throwing, awaits nothing (so calls no persistence function) and
\* leaves the registries, the debates and the store as they were.
C17_NonCallableSilent ==
    [][(last'.cmd \in Commands /\ last'.phase = "call" /\ ~last'.req.cb)
        => /\ last'.outcome = "returned"
           /\ last'.replies = <<>>
           /\ UNCHANGED <<users, activeDebates, debates, discussions, closeMarkers,
                          tasks>>]_vars

\* C17 witness: closeDebate was called on a registered debate without a
\* callable callback, and the debate is registered still.
C17_Witness ==
    /\ Called("closeDebate")
    /\ ~last.req.cb
    /\ last.req.id \in Registered
    /\ last.replies = <<>>

\* C18: newDebate resuming after a closeDebate unregistered its debate neither
\* starts the debate's socket handling nor replies with the debate's id, and
\* newQuestion resuming after a closeDebate unregistered its debate does not
\* reply with the question's id.
C18_RecheckAfterAwait ==
    [][last'.phase = "resume"
        => /\ \A task \in BagToSet(tasks), res \in SaveOutcomes :
                (newDebateResume(task, res) /\ task.debate \notin activeDebates)
                    => /\ ~debates'[task.debate].started
                       /\ last'.replies # <<NumV(task.debate)>>
           /\ \A task \in BagToSet(tasks) :
                (newQuestionResume(task) /\ task.debate \notin activeDebates)
                    => last'.replies # <<NumV(task.question)>>]_vars

\* a closeDebate on the debate closeDebate is being called on awaits
\* saveEndDiscussion
ClosingMeanwhile ==
    \E task \in BagToSet(tasks) :
        task.cmd = "closeDebate" /\ NumV(task.debate) = last'.req.id

\* C19: saveEndDiscussion is called at most once with each debate id; a
\* closeDebate called while another closeDebate on the same id awaits
\* saveEndDiscussion replies false and calls nothing.
C19_CloseMarkerAtMostOnce ==
    [][/\ \A d \in BagToSet(closeMarkers') : CopiesIn(d, closeMarkers') = 1
       /\ (Called("closeDebate")' /\ last'.req.cb /\ ClosingMeanwhile)
            => /\ last'.replies = <<BoolV(FALSE)>>
               /\ closeMarkers' = closeMarkers
               /\ tasks' = tasks]_vars

\* C19 witness: closeDebate on debate 1 replied false while the closeDebate
\* that found debate 1 awaits saveEndDiscussion, which was called once.
C19_Witness ==
    /\ Called("closeDebate")
    /\ last.req.id = NumV(1)
    /\ last.replies = <<BoolV(FALSE)>>
    /\ \E task \in BagToSet(tasks) : task.cmd = "closeDebate" /\ task.debate = 1
    /\ CopiesIn(1, closeMarkers) = 1

\* C20: the array getDebates replies with holds no two entries with the same
\* debateId.
C20_ListedAtMostOnce ==
    [][(last'.cmd = "getDebates" /\ last'.phase = "resume")
        => LET listed == last'.replies[1].a
           IN \A i, j \in 1..Len(listed) :
                  listed[i].debateId = listed[j].debateId => i = j]_vars

====
